---- MODULE Spec2Model ----
(***************************************************************************)
(* Wrapper layers of tfjs-layers (src/unnamed/part_000): the abstract      *)
(* Wrapper, TimeDistributed and Bidirectional.                             *)
(*                                                                         *)
(* One wrapper object is alive at a time.  `layer` is the layer supplied   *)
(* to the wrapper (this.layer), `wrapper` holds the wrapper's own fields,  *)
(* `forwardLayer` / `backwardLayer` are the two clones a Bidirectional     *)
(* owns.  `log` is the sequence of calls the last operation made on its    *)
(* collaborators and `res` its outcome (return value or thrown error).     *)
(*                                                                         *)
(* Conventions: a JavaScript dictionary is a function whose domain is its  *)
(* set of keys (an absent key is `undefined`); an Array is a sequence; a   *)
(* value of type `T|T[]` is modelled by the sequence (a single T is the    *)
(* one-element sequence where the code treats both alike).                 *)
(***************************************************************************)
EXTENDS Integers, Sequences, FiniteSets, TLC

VARIABLES layer, wrapper, forwardLayer, backwardLayer, log, res, lastTrainable

vars == <<layer, wrapper, forwardLayer, backwardLayer, log, res, lastTrainable>>

(***************************************************************************)
(* Bounds of the model.                                                    *)
(***************************************************************************)
MaxWeights == 2
MaxRank == 4
MaxSteps == 3
MaxStates == 4

MaxInputSpec == 3

\* Representative dimension sizes and tensor element values.
DimSizes == {2, 3}

Values == {0, 1}

(***************************************************************************)
(* Dictionaries, null and small helpers.                                   *)
(***************************************************************************)
Null == "<null>"

EmptyDict == [k \in {} |-> TRUE]

Has(d, k) == k \in DOMAIN d

ObjectAssign(target, source) == source @@ target

Without(d, k) == [x \in DOMAIN d \ {k} |-> d[x]]

Slice(s, from, to) == [i \in 1..(IF to > from THEN to - from ELSE 0) |-> s[from + i]]

SliceFrom(s, from) == Slice(s, IF from > Len(s) THEN Len(s) ELSE from, Len(s))

Floor2(n) == n \div 2

Ev(op, who) == [op |-> op, who |-> who]

(***************************************************************************)
(* Errors.                                                                 *)
(***************************************************************************)
ValueError == "ValueError"

NotImplementedError == "NotImplementedError"

OK == "ok"

(***************************************************************************)
(* Layer objects.  A layer has a class, a name, a trainable flag, its      *)
(* class-specific configuration `cfg`, a built flag and (once built) its   *)
(* weights.  RNN layers keep goBackwards, returnSequences, returnState,    *)
(* stateful, units and the number of weight tensors of their cell in cfg.  *)
(***************************************************************************)
NoLayer ==
    [className |-> "none", name |-> "", trainable |-> FALSE, cfg |-> EmptyDict,
     built |-> FALSE, weights |-> <<>>, stateSpec |-> <<>>]

LayerGetConfig(l) ==
    ObjectAssign(l.cfg, [name |-> l.name, trainable |-> l.trainable])

Deserialize(className, config) ==
    [className |-> className,
     name |-> config.name,
     trainable |-> IF Has(config, "trainable") THEN config.trainable ELSE TRUE,
     cfg |-> Without(Without(config, "name"), "trainable"),
     built |-> FALSE, weights |-> <<>>, stateSpec |-> <<>>]

GoBackwards(l) == Has(l.cfg, "goBackwards") /\ l.cfg.goBackwards

NumWeights(l) == IF Has(l.cfg, "numWeights") THEN l.cfg.numWeights ELSE 0

NumStates(l) == IF l.className = "LSTM" THEN 2 ELSE 1

RnnInputSpec == <<[ndim |-> 3, shape |-> <<>>]>>

(***************************************************************************)
(* The wrapper object.                                                     *)
(***************************************************************************)
NoWrapper ==
    [kind |-> "none", name |-> "", built |-> FALSE, inputSpec |-> <<>>,
     supportsMasking |-> FALSE, mergeMode |-> Null, trainable_ |-> FALSE,
     stateful_ |-> FALSE, returnSequences |-> FALSE, returnState |-> FALSE,
     numConstants |-> Null]

\* Layer constructor (topology.ts): the name given or a generated one, and
\* `this.trainable = config.trainable ?? true`, which goes through the
\* subclass's setter.
LayerCtorName(config, className) ==
    IF Has(config, "name") THEN config.name
    ELSE IF className = "Bidirectional" THEN "bidirectional_1"
    ELSE "time_distributed_1"

LayerCtorTrainable(config) ==
    IF Has(config, "trainable") THEN config.trainable ELSE TRUE

(***************************************************************************)
(* Bidirectional: merge-mode validation.                                   *)
(***************************************************************************)
VALID_BIDIRECTIONAL_MERGE_MODES == {"sum", "mul", "concat", "ave"}

\* generic_utils.checkStringTypeUnionValue: null/undefined passes.
checkStringTypeUnionValue(values, value) ==
    IF value = Null THEN OK
    ELSE IF value \in values THEN OK ELSE ValueError

checkBidirectionalMergeMode(value) ==
    checkStringTypeUnionValue(VALID_BIDIRECTIONAL_MERGE_MODES, value)

ConfigMergeMode(config) ==
    IF Has(config, "mergeMode") THEN config.mergeMode ELSE Null

(***************************************************************************)
(* Bidirectional constructor.                                              *)
(***************************************************************************)
FlipGoBackwardsAdditive(layerConfig) ==
    ("goBackwards" :> TRUE) @@ layerConfig

\* layerConfig['goBackwards'] = layerConfig['goBackwards'] === true ? false : true
FlipGoBackwards(layerConfig) ==
    ("goBackwards" :>
        (IF Has(layerConfig, "goBackwards") /\ layerConfig.goBackwards = TRUE
         THEN FALSE ELSE TRUE)) @@ layerConfig

\* The statements of the constructor in program order; `log` lists the calls
\* made up to the point where the constructor returned or threw.
BidirectionalCtor(config) ==
    LET l == config.layer
        name == LayerCtorName(config, "Bidirectional")
        layerConfig == LayerGetConfig(l)
        fwd0 == Deserialize(l.className, layerConfig)
        layerConfig2 == FlipGoBackwards(layerConfig)
        bwd0 == Deserialize(l.className, layerConfig2)
        fwd == [fwd0 EXCEPT !.name = "forward_" \o fwd0.name]
        bwd == [bwd0 EXCEPT !.name = "backward_" \o bwd0.name]
        cloned == << Ev("getConfig", "layer"), Ev("deserialize", "forwardLayer"),
                     Ev("deserialize", "backwardLayer"),
                     Ev("checkBidirectionalMergeMode", "config") >>
        mode == ConfigMergeMode(config)
        w == [kind |-> "Bidirectional", name |-> name, built |-> FALSE,
              inputSpec |-> RnnInputSpec, supportsMasking |-> TRUE,
              mergeMode |-> mode, trainable_ |-> TRUE,
              stateful_ |-> l.cfg.stateful,
              returnSequences |-> l.cfg.returnSequences,
              returnState |-> l.cfg.returnState,
              numConstants |-> Null]
    IN  IF checkBidirectionalMergeMode(mode) # OK
        THEN [status |-> ValueError, log |-> cloned]
        ELSE IF Has(config, "weights")
        THEN [status |-> NotImplementedError, log |-> cloned]
        ELSE [status |-> OK, log |-> cloned, wrapper |-> w, layer |-> l,
              forward |-> fwd, backward |-> bwd]

\* set trainable(value)
BidirectionalSetTrainable(w, f, b, value) ==
    [wrapper |-> [w EXCEPT !.trainable_ = value],
     forward |-> IF f.className # "none" THEN [f EXCEPT !.trainable = value] ELSE f,
     backward |-> IF b.className # "none" THEN [b EXCEPT !.trainable = value] ELSE b]

(***************************************************************************)
(* Wrapper base: trainable, getConfig, fromConfig.                         *)
(***************************************************************************)
\* get trainable() of Wrapper: delegates to the inner layer.
WrapperGetTrainable(l) ==
    IF l.className # "none" THEN l.trainable ELSE FALSE

\* set trainable(value) of Wrapper: returns the inner layer after the set.
WrapperSetTrainable(l, value) ==
    IF l.className # "none" THEN [l EXCEPT !.trainable = value] ELSE l

\* Layer.getConfig (topology.ts): the generic fields; `trainable` is read
\* through the subclass's getter.
LayerBaseGetConfig(name, trainable) ==
    [name |-> name, trainable |-> trainable]

WrapperGetConfig(w, l, trainable) ==
    LET config == [layer |-> [className |-> l.className,
                              config |-> LayerGetConfig(l)]]
        baseConfig == LayerBaseGetConfig(w.name, trainable)
    IN  ObjectAssign(config, baseConfig)

\* The constructor arguments Wrapper.fromConfig builds from a config.
WrapperFromConfigArgs(config) ==
    LET layerConfig == config.layer
        l == Deserialize(layerConfig.className, layerConfig.config)
        newConfig == [layer |-> l]
    IN  ObjectAssign(newConfig, Without(config, "layer"))

(***************************************************************************)
(* TimeDistributed.                                                        *)
(***************************************************************************)
\* constructor: super(config) runs the Layer constructor, whose trainable
\* assignment reaches Wrapper's setter while this.layer is still unset.
TimeDistributedCtor(config) ==
    [wrapper |-> [NoWrapper EXCEPT !.kind = "TimeDistributed",
                                   !.name = LayerCtorName(config, "TimeDistributed"),
                                   !.supportsMasking = TRUE],
     layer |-> config.layer]

TimeDistributedGetConfig(w, l) ==
    WrapperGetConfig(w, l, WrapperGetTrainable(l))

TimeDistributedFromConfig(config) ==
    TimeDistributedCtor(WrapperFromConfigArgs(config))

getExactlyOneShape(inputShape) == inputShape

\* [inputShape[0]].concat(inputShape.slice(2))
ChildInputShape(inputShape) ==
    <<inputShape[1]>> \o SliceFrom(inputShape, 2)

\* Layer.build of the inner layer: creates the layer's weights.
LayerBuild(l) ==
    [l EXCEPT !.built = TRUE, !.weights = [i \in 1..NumWeights(l) |-> 0]]

TimeDistributedBuildNoRankCheck(w, l, shape) ==
    LET inputShape == getExactlyOneShape(shape)
        childInputShape == ChildInputShape(inputShape)
    IN  [status |-> OK,
         wrapper |-> [w EXCEPT !.inputSpec = <<[ndim |-> 0, shape |-> inputShape]>>,
                               !.built = TRUE],
         layer |-> IF ~l.built THEN [LayerBuild(l) EXCEPT !.built = TRUE] ELSE l,
         log |-> IF ~l.built
                 THEN <<[op |-> "build", who |-> "layer", shape |-> childInputShape]>>
                 ELSE <<>>]

TimeDistributedBuild(w, l, shape) ==
    LET inputShape == getExactlyOneShape(shape)
        childInputShape == ChildInputShape(inputShape)
    IN  IF Len(inputShape) < 3
        THEN [status |-> ValueError, wrapper |-> w, layer |-> l, log |-> <<>>]
        ELSE [status |-> OK,
              wrapper |-> [w EXCEPT !.inputSpec = <<[ndim |-> 0, shape |-> inputShape]>>,
                                    !.built = TRUE],
              layer |-> IF ~l.built THEN [LayerBuild(l) EXCEPT !.built = TRUE] ELSE l,
              log |-> IF ~l.built
                      THEN <<[op |-> "build", who |-> "layer", shape |-> childInputShape]>>
                      ELSE <<>>]

\* computeOutputShape of the wrapped layer, by class.
InnerComputeOutputShape(l, s) ==
    CASE l.className = "Dense" -> Slice(s, 0, Len(s) - 1) \o <<l.cfg.units>>
      [] l.className = "RepeatVector" -> <<s[1], l.cfg.units>> \o SliceFrom(s, 1)
      [] l.className = "Reduce" -> <<s[1]>>
      [] OTHER -> s

TimeDistributedComputeOutputShapeBatchAsTime(l, shape) ==
    LET inputShape == getExactlyOneShape(shape)
        childOutputShape == InnerComputeOutputShape(l, ChildInputShape(inputShape))
    IN  <<childOutputShape[1], inputShape[1]>> \o SliceFrom(childOutputShape, 1)

TimeDistributedComputeOutputShape(l, shape) ==
    LET inputShape == getExactlyOneShape(shape)
        childInputShape == ChildInputShape(inputShape)
        childOutputShape == InnerComputeOutputShape(l, childInputShape)
        timesteps == inputShape[2]
    IN  <<childOutputShape[1], timesteps>> \o SliceFrom(childOutputShape, 1)

(***************************************************************************)
(* Tensors.  A tensor of shape [B, T, ...F] is its shape and its T time    *)
(* slices; a time slice of shape [B, ...F] is its shape and its content.   *)
(***************************************************************************)
TimeSlice(x, t) ==
    [shape |-> <<x.shape[1]>> \o SliceFrom(x.shape, 2), v |-> x.data[t]]

\* Stacks per-step outputs along a new axis 1.
Stack(outs) ==
    [shape |-> <<outs[1].shape[1], Len(outs)>> \o SliceFrom(outs[1].shape, 1),
     data |-> [i \in 1..Len(outs) |-> outs[i].v]]

\* recurrent.ts rnn(stepFunction, inputs, initialStates, goBackwards, mask,
\* constants, unroll, inputLength): runs the step function (a function of the
\* time slice) on each time slice in time order, reversed when goBackwards,
\* and returns [lastOutput, stacked outputs, states]; `steps` lists the step
\* results in the order of the calls.
rnn(stepFunction, inputs, goBackwards) ==
    LET T == inputs.shape[2]
        order == [i \in 1..T |-> IF goBackwards THEN T + 1 - i ELSE i]
        steps == [i \in 1..T |-> stepFunction[TimeSlice(inputs, order[i])]]
        outs == [i \in 1..T |-> steps[i].output]
    IN  [outputs |-> << outs[T], Stack(outs), <<>> >>, steps |-> steps]

TimeSlices(x) == { TimeSlice(x, t) : t \in 1..x.shape[2] }

\* Layer.call of the wrapped layer: an output of the layer's output shape
\* whose content is determined by the layer and the input.
LayerCall(l, x, kwargs) ==
    [shape |-> InnerComputeOutputShape(l, x.shape),
     v |-> [f |-> l.className, x |-> x.v]]

getExactlyOneTensor(inputs) == inputs

\* The step function defined in TimeDistributed.call.
TimeDistributedStep(l, kwargs, inputs) ==
    [output |-> LayerCall(l, inputs, kwargs),
     states |-> <<>>,
     call |-> [op |-> "call", who |-> "layer", input |-> inputs, kwargs |-> kwargs]]

TimeDistributedCallBackwards(l, x, kwargs) ==
    LET inputs == getExactlyOneTensor(x)
        step == [s \in TimeSlices(inputs) |-> TimeDistributedStep(l, kwargs, s)]
        r == rnn(step, inputs, TRUE)
    IN  [value |-> r.outputs[2],
         log |-> [i \in 1..Len(r.steps) |-> r.steps[i].call]]

TimeDistributedCall(l, x, kwargs) ==
    LET inputs == getExactlyOneTensor(x)
        step == [s \in TimeSlices(inputs) |-> TimeDistributedStep(l, kwargs, s)]
        rnnOutputs == rnn(step, inputs, FALSE)
        y == rnnOutputs.outputs[2]
    IN  [value |-> y,
         log |-> [i \in 1..Len(rnnOutputs.steps) |-> rnnOutputs.steps[i].call]]

(***************************************************************************)
(* Bidirectional: trainable, config, weights.                              *)
(***************************************************************************)
BidirectionalGetTrainable(w) == w.trainable_

BidirectionalGetConfig(w, l) ==
    LET config == [mergeMode |-> w.mergeMode]
        baseConfig == WrapperGetConfig(w, l, BidirectionalGetTrainable(w))
    IN  ObjectAssign(config, baseConfig)

\* fromConfig: the constructor's outcome on the rebuilt configuration.
BidirectionalFromConfig(config) ==
    LET layerConfig == config.layer
        rnnLayer == Deserialize(layerConfig.className, layerConfig.config)
        newConfig == ("layer" :> rnnLayer) @@ Without(config, "layer")
    IN  IF Has(config, "numConstants")
        THEN [status |-> NotImplementedError, log |-> <<>>]
        ELSE BidirectionalCtor(newConfig)

\* Layer.setWeights of a clone: the count must match the layer's weights.
LayerSetWeights(l, weights) ==
    IF Len(weights) # Len(l.weights)
    THEN [status |-> ValueError, layer |-> l]
    ELSE [status |-> OK, layer |-> [l EXCEPT !.weights = weights]]

BidirectionalGetWeights(f, b) == f.weights \o b.weights

BidirectionalSetWeightsSwapped(f, b, weights) ==
    LET numWeights == Len(weights)
        numeightsOver2 == Floor2(numWeights)
        rf == LayerSetWeights(f, SliceFrom(weights, numeightsOver2))
        rb == LayerSetWeights(b, Slice(weights, 0, numeightsOver2))
    IN  IF rf.status # OK
        THEN [status |-> rf.status, forward |-> f, backward |-> b]
        ELSE [status |-> rb.status, forward |-> rf.layer, backward |-> rb.layer]

BidirectionalSetWeights(f, b, weights) ==
    LET numWeights == Len(weights)
        numeightsOver2 == Floor2(numWeights)
        rf == LayerSetWeights(f, Slice(weights, 0, numeightsOver2))
        rb == LayerSetWeights(b, SliceFrom(weights, numeightsOver2))
    IN  IF rf.status # OK
        THEN [status |-> rf.status, forward |-> f, backward |-> b]
        ELSE [status |-> rb.status, forward |-> rf.layer, backward |-> rb.layer]

\* build: both clones are built on the same input shape.
BidirectionalBuild(w, f, b, inputShape) ==
    [wrapper |-> [w EXCEPT !.built = TRUE],
     forward |-> LayerBuild(f),
     backward |-> LayerBuild(b),
     log |-> <<[op |-> "build", who |-> "forwardLayer", shape |-> inputShape],
               [op |-> "build", who |-> "backwardLayer", shape |-> inputShape]>>]

(***************************************************************************)
(* Bidirectional: computeOutputShape and call.                             *)
(***************************************************************************)
\* RNN.computeOutputShape of a clone: the main output shape, followed by one
\* shape per state when returnState is set.
RnnComputeOutputShape(l, inputShape) ==
    LET main == IF l.cfg.returnSequences
                THEN <<inputShape[1], inputShape[2], l.cfg.units>>
                ELSE <<inputShape[1], l.cfg.units>>
    IN  IF l.cfg.returnState
        THEN <<main>> \o [i \in 1..NumStates(l) |-> <<inputShape[1], l.cfg.units>>]
        ELSE <<main>>

singletonOrArray(xs) == [isArray |-> Len(xs) # 1, shapes |-> xs]

\* outputShape[outputShape.length - 1] *= 2
DoubleLast(shape) ==
    [i \in 1..Len(shape) |-> IF i = Len(shape) THEN shape[i] * 2 ELSE shape[i]]

BidirectionalComputeOutputShapeDropBackwardState(w, f, inputShape) ==
    LET layerShapes == RnnComputeOutputShape(f, inputShape)
        stateShape == IF w.returnState THEN SliceFrom(layerShapes, 1) ELSE <<>>
        outputShape == IF w.mergeMode = "concat" THEN DoubleLast(layerShapes[1])
                       ELSE layerShapes[1]
        outputShapes == IF w.mergeMode = Null THEN <<outputShape, outputShape>>
                        ELSE <<outputShape>>
    IN  IF w.returnState
        THEN [isArray |-> TRUE, shapes |-> outputShapes \o stateShape]
        ELSE singletonOrArray(outputShapes)

BidirectionalComputeOutputShape(w, f, inputShape) ==
    LET layerShapes == RnnComputeOutputShape(f, inputShape)
        stateShape == IF w.returnState THEN SliceFrom(layerShapes, 1) ELSE <<>>
        outputShape == IF w.mergeMode = "concat" THEN DoubleLast(layerShapes[1])
                       ELSE layerShapes[1]
        outputShapes == IF w.mergeMode = "concat" THEN <<outputShape>>
                        ELSE IF w.mergeMode = Null THEN <<outputShape, outputShape>>
                        ELSE <<outputShape>>
    IN  IF w.returnState
        THEN IF w.mergeMode = Null
             THEN [isArray |-> TRUE,
                   shapes |-> (outputShapes \o stateShape) \o stateShape]
             ELSE [isArray |-> TRUE,
                   shapes |-> (<<outputShape>> \o stateShape) \o stateShape]
        ELSE singletonOrArray(outputShapes)

\* RNN.call of a clone: the main output, followed by the final states when
\* returnState is set.
RnnCall(l, inputs, kwargs) ==
    LET main == [term |-> "rnn", layer |-> l.name, goBackwards |-> GoBackwards(l),
                 input |-> inputs,
                 initialState |-> IF Has(kwargs, "initialState")
                                  THEN kwargs.initialState ELSE <<>>]
    IN  IF l.cfg.returnState
        THEN <<main>> \o [i \in 1..NumStates(l) |->
                            [term |-> "state", layer |-> l.name, i |-> i]]
        ELSE <<main>>

CallEv(who, inputs, kwargs) ==
    [op |-> "call", who |-> who, input |-> inputs, kwargs |-> kwargs]

Merge(mergeMode, y, yRev) ==
    CASE mergeMode = "concat" -> [term |-> "concatenate", a |-> y, b |-> yRev]
      [] mergeMode = "sum" -> [term |-> "add", a |-> y, b |-> yRev]
      [] mergeMode = "ave" ->
            [term |-> "mul", a |-> [term |-> "scalar 0.5"],
             b |-> [term |-> "add", a |-> y, b |-> yRev]]
      [] mergeMode = "mul" -> [term |-> "mul", a |-> y, b |-> yRev]
      [] OTHER -> <<y, yRev>>

BidirectionalCall(w, f, b, inputs, kwargs) ==
    LET hasState == Has(kwargs, "initialState")
        initialState == IF hasState THEN kwargs.initialState ELSE <<>>
        half == Floor2(Len(initialState))
        forwardState == Slice(initialState, 0, half)
        backwardState == SliceFrom(initialState, half)
        kw1 == IF hasState
               THEN ObjectAssign(kwargs, [initialState |-> forwardState])
               ELSE kwargs
        kw2 == IF hasState
               THEN ObjectAssign(kw1, [initialState |-> backwardState])
               ELSE kwargs
        y == RnnCall(f, inputs, kw1)
        yRev == IF hasState THEN RnnCall(f, inputs, kw2) ELSE RnnCall(b, inputs, kw2)
        calls == << CallEv("forwardLayer", inputs, kw1),
                    CallEv(IF hasState THEN "forwardLayer" ELSE "backwardLayer",
                           inputs, kw2) >>
        states == IF w.returnState THEN SliceFrom(y, 1) \o SliceFrom(yRev, 1) ELSE <<>>
        yRev1 == IF w.returnSequences
                 THEN [term |-> "reverse", x |-> yRev[1], axis |-> 1]
                 ELSE yRev[1]
        output == Merge(w.mergeMode, y[1], yRev1)
    IN  IF Has(kwargs, "mask")
        THEN [status |-> NotImplementedError, log |-> <<>>]
        ELSE [status |-> OK, log |-> calls,
              value |-> IF w.returnState
                        THEN IF w.mergeMode = Null THEN output \o states
                             ELSE <<output>> \o states
                        ELSE output]

(***************************************************************************)
(* Bidirectional: apply.  A nullable list is a sequence of zero (null) or  *)
(* one (the list) elements; `inputs` carries Array.isArray as a flag.  A   *)
(* null kwargs behaves as {} (lines 381-387) and is drawn as EmptyDict.    *)
(***************************************************************************)
None == <<>>

Some(x) == <<x>>

IsNull(o) == Len(o) = 0

SingleInput(x) == [isArray |-> FALSE, items |-> <<x>>]

ArrayInput(xs) == [isArray |-> TRUE, items |-> xs]

\* new InputSpec({shape: state.shape})
InputSpecOfShape(shape) == [ndim |-> 0, shape |-> shape]

\* standardizeArgs of the recurrent layers: an array input carries the
\* initial states after its first element and excludes states or constants
\* in the options; a bare state or constant becomes a one-element list.
standardizeArgs(inputs, initialState, constants, numConstants) ==
    IF inputs.isArray
    THEN IF ~IsNull(initialState) \/ ~IsNull(constants)
         THEN [status |-> ValueError]
         ELSE LET n == IF numConstants = Null THEN 0 ELSE numConstants
                  cut == Len(inputs.items) - n
                  ins == Slice(inputs.items, 0, cut)
              IN  [status |-> OK,
                   inputs |-> SingleInput(ins[1]),
                   initialState |-> IF Len(ins) > 1 THEN Some(SliceFrom(ins, 1))
                                    ELSE initialState,
                   constants |-> IF numConstants = Null THEN constants
                                 ELSE Some(SliceFrom(inputs.items, cut))]
    ELSE [status |-> OK, inputs |-> inputs, initialState |-> initialState,
          constants |-> constants]

\* Layer.assertInputCompatibility: one input per spec, of the declared rank
\* and shape where declared.
InputCompatible(inputSpec, inputs) ==
    /\ Len(inputs) = Len(inputSpec)
    /\ \A i \in 1..Len(inputs) :
         /\ inputSpec[i].ndim # 0 => Len(inputs[i].shape) = inputSpec[i].ndim
         /\ inputSpec[i].shape # <<>> => inputs[i].shape = inputSpec[i].shape

\* Layer.apply of the base class, on the wrapper: the inputs are all symbolic
\* or all concrete and compatible with the declared input specification, the
\* layer is built on first use, and concrete inputs are passed to call.
LayerApply(w, f, b, inputs, kwargs) ==
    LET unchanged == [wrapper |-> w, forward |-> f, backward |-> b]
        shapes == [i \in 1..Len(inputs) |-> inputs[i].shape]
        bd == IF w.built
              THEN unchanged @@ [log |-> <<>>]
              ELSE BidirectionalBuild(w, f, b, shapes)
        c == BidirectionalCall(bd.wrapper, bd.forward, bd.backward,
                               inputs[1], kwargs)
    IN  IF \E i, j \in 1..Len(inputs) : inputs[i].symbolic # inputs[j].symbolic
        THEN unchanged @@ [status |-> ValueError, log |-> <<>>]
        ELSE IF ~InputCompatible(w.inputSpec, inputs)
        THEN unchanged @@ [status |-> ValueError, log |-> <<>>]
        ELSE IF inputs[1].symbolic
        THEN [status |-> OK, wrapper |-> bd.wrapper, forward |-> bd.forward,
              backward |-> bd.backward, log |-> bd.log]
        ELSE [status |-> c.status, wrapper |-> bd.wrapper, forward |-> bd.forward,
              backward |-> bd.backward, log |-> bd.log \o c.log]

\* Lines 436-454: the input specification is widened by the state specs for
\* the base apply and restored when that apply returns.
ApplyWidened(w, f, b, fullInput, additionalSpecs, kwargs) ==
    LET originalInputSpec == w.inputSpec
        fullInputSpec == w.inputSpec \o additionalSpecs
        r == LayerApply([w EXCEPT !.inputSpec = fullInputSpec],
                        f, b, fullInput, kwargs)
    IN  IF r.status = OK
        THEN [r EXCEPT !.wrapper = [r.wrapper EXCEPT !.inputSpec = originalInputSpec]]
        ELSE r

BidirectionalApply(w, f, b, inputs0, kwargs0) ==
    LET unchanged == [wrapper |-> w, forward |-> f, backward |-> b,
                      kwargs |-> kwargs0, log |-> <<>>]
        standardized ==
            standardizeArgs(inputs0,
                            IF Has(kwargs0, "initialState")
                            THEN Some(kwargs0.initialState) ELSE None,
                            IF Has(kwargs0, "constants")
                            THEN Some(kwargs0.constants) ELSE None,
                            w.numConstants)
        isArray == standardized.inputs.isArray
        inputs == standardized.inputs.items[1]
        initialState == IF isArray THEN Some(SliceFrom(standardized.inputs.items, 1))
                        ELSE standardized.initialState
        constants == standardized.constants
        states == IF IsNull(initialState) THEN <<>> ELSE initialState[1]
        numStates == Len(states)
        kwargs == IF IsNull(initialState) THEN kwargs0
                  ELSE ObjectAssign(kwargs0, [initialState |-> states])
        stateSpecs == [i \in 1..numStates |-> InputSpecOfShape(states[i].shape)]
        f1 == IF IsNull(initialState) THEN f
              ELSE [f EXCEPT !.stateSpec = Slice(stateSpecs, 0, numStates \div 2)]
        b1 == IF IsNull(initialState) THEN b
              ELSE [b EXCEPT !.stateSpec = SliceFrom(stateSpecs, numStates \div 2)]
        additionalInputs == states
        additionalSpecs == stateSpecs
        modified == [wrapper |-> w, forward |-> f1, backward |-> b1,
                     kwargs |-> kwargs, log |-> <<>>]
        isSymbolicTensor == additionalInputs[1].symbolic
    IN  IF standardized.status # OK
        THEN unchanged @@ [status |-> ValueError]
        ELSE IF (IsNull(initialState) \/ numStates = 0) /\ IsNull(constants)
        THEN LayerApply(w, f, b, <<inputs>>, kwargs0) @@ [kwargs |-> kwargs0]
        ELSE IF ~IsNull(initialState) /\ numStates % 2 > 0
        THEN unchanged @@ [status |-> ValueError]
        ELSE IF ~IsNull(constants)
        THEN modified @@ [status |-> NotImplementedError]
        ELSE IF \E i \in 1..Len(additionalInputs) :
                    additionalInputs[i].symbolic # isSymbolicTensor
        THEN modified @@ [status |-> ValueError]
        ELSE IF isSymbolicTensor
        THEN ApplyWidened(w, f1, b1, <<inputs>> \o additionalInputs,
                          additionalSpecs, kwargs) @@ [kwargs |-> kwargs]
        ELSE LayerApply(w, f1, b1, <<inputs>>, kwargs) @@ [kwargs |-> kwargs]

(***************************************************************************)
(* Inputs.                                                                 *)
(***************************************************************************)
GoBackwardsOptions ==
    {EmptyDict, ("goBackwards" :> TRUE), ("goBackwards" :> FALSE)}

\* RNN layers, by class, trainable flag, goBackwards entry,
\* <<returnSequences, returnState>> and number of weights.
RnnLayersOf(classes, trainables, gs, flags, ns) ==
    { [className |-> c, name |-> "rnn", trainable |-> t,
       cfg |-> g @@ [returnSequences |-> fl[1], returnState |-> fl[2],
                     stateful |-> FALSE, numWeights |-> n, units |-> 5],
       built |-> FALSE, weights |-> <<>>, stateSpec |-> <<>>] :
        c \in classes, t \in trainables, g \in gs, fl \in flags, n \in ns }

MergeModeOptions ==
    {EmptyDict} \cup { ("mergeMode" :> m) : m \in VALID_BIDIRECTIONAL_MERGE_MODES }

\* Every way of constructing a Bidirectional: any merge mode (an invalid one
\* included), with or without name, trainable and weights in the config.
BidirectionalConfigs ==
    { ((("layer" :> l) @@ m) @@ t) @@ (w @@ n) :
        l \in RnnLayersOf({"LSTM"}, BOOLEAN, GoBackwardsOptions,
                          {<<FALSE, FALSE>>, <<TRUE, TRUE>>}, {1}),
        m \in MergeModeOptions \cup {("mergeMode" :> "xyz")},
        t \in {EmptyDict, ("trainable" :> FALSE), ("trainable" :> TRUE)},
        w \in {EmptyDict, ("weights" :> TRUE)},
        n \in {EmptyDict, ("name" :> "bi")} }

\* Valid constructions over every class, merge mode, returnSequences and
\* returnState.
PlainBidirectionalConfigs ==
    { ("layer" :> l) @@ m :
        l \in RnnLayersOf({"SimpleRNN", "LSTM"}, {TRUE}, {EmptyDict},
                          BOOLEAN \X BOOLEAN, {1}),
        m \in MergeModeOptions }

\* Valid constructions over every number of weights.
WeightBidirectionalConfigs ==
    { ("layer" :> l) @@ ("mergeMode" :> "concat") :
        l \in RnnLayersOf({"SimpleRNN"}, {TRUE}, {EmptyDict},
                          {<<FALSE, FALSE>>}, 0..MaxWeights) }

InnerLayersOf(trainables) ==
    { [className |-> c, name |-> "inner", trainable |-> t,
       cfg |-> [units |-> 5, numWeights |-> 1],
       built |-> b, weights |-> IF b THEN <<0>> ELSE <<>>, stateSpec |-> <<>>] :
        c \in {"Dense", "Activation", "RepeatVector", "Reduce"},
        t \in trainables, b \in BOOLEAN }

TimeDistributedConfigs ==
    { ("layer" :> l) @@ n :
        l \in InnerLayersOf(BOOLEAN), n \in {EmptyDict, ("name" :> "td")} }

PlainTimeDistributedConfigs ==
    { ("layer" :> l) @@ EmptyDict : l \in InnerLayersOf({TRUE}) }

SeqsOf(S, n) == UNION { [1..k -> S] : k \in 0..n }

\* Shapes of rank 1..MaxRank: batch and time sizes vary, feature sizes are 4.
Shapes ==
    { [i \in 1..r |-> IF i = 1 THEN bt ELSE IF i = 2 THEN ts ELSE 4] :
        r \in 1..MaxRank, bt \in DimSizes, ts \in DimSizes }

\* Tensors [B, T, 4] with T in steps, whose time slices are pairwise distinct.
TensorsOf(steps) ==
    { [shape |-> <<bt, ts, 4>>, data |-> [i \in 1..ts |-> v + i]] :
        bt \in DimSizes, ts \in steps, v \in Values }

InitialStates == { [i \in 1..n |-> i] : n \in 0..MaxStates }

CallKwargs ==
    { s @@ m :
        s \in {EmptyDict} \cup { ("initialState" :> st) : st \in InitialStates },
        m \in {EmptyDict, ("mask" :> TRUE), ("training" :> TRUE)} }

StepKwargs == {EmptyDict, ("training" :> TRUE)}

WeightLists == SeqsOf(Values, 2 * MaxWeights)

\* Inputs of apply.  The main input is symbolic or concrete, of rank 3 as
\* the wrapper declares or of rank 2; state i has its own shape, so that
\* the state specs tell the states apart.
ApplyConfigs ==
    { ("layer" :> l) @@ m :
        l \in RnnLayersOf({"LSTM"}, {TRUE}, {EmptyDict}, {<<TRUE, FALSE>>}, {1}),
        m \in {EmptyDict, ("mergeMode" :> "sum")} }

ApplyTensor(shape, symbolic) == [shape |-> shape, symbolic |-> symbolic]

ApplyInputs ==
    { ApplyTensor(<<2, 3, 4>>, TRUE), ApplyTensor(<<2, 4>>, TRUE),
      ApplyTensor(<<2, 3, 4>>, FALSE) }

StateTensor(i, symbolic) == ApplyTensor(<<2, 4 + i>>, symbolic)

ApplyStateLists ==
    { [i \in 1..n |-> StateTensor(i, s)] : n \in 0..MaxStates, s \in BOOLEAN }
    \cup { <<StateTensor(1, TRUE), StateTensor(2, FALSE)>> }

ConstantsList == <<ApplyTensor(<<2, 4>>, TRUE)>>

\* <<inputs, kwargs>>: the states in the options, after the main input, or
\* in both places; constants with and without states.
ApplyArgs ==
    { <<SingleInput(x), kw>> :
        x \in ApplyInputs,
        kw \in {EmptyDict} \cup { ("initialState" :> st) : st \in ApplyStateLists } }
    \cup { <<ArrayInput(<<x>> \o st), EmptyDict>> :
             x \in ApplyInputs, st \in ApplyStateLists }
    \cup { <<ArrayInput(<<x>> \o st), ("initialState" :> st)>> :
             x \in ApplyInputs, st \in { s \in ApplyStateLists : Len(s) = 1 } }
    \cup { <<SingleInput(x), ("constants" :> ConstantsList) @@ kw>> :
             x \in ApplyInputs,
             kw \in {EmptyDict}
                    \cup { ("initialState" :> st) :
                             st \in { s \in ApplyStateLists : Len(s) \in {0, 2} } } }

(***************************************************************************)
(* Actions: one per operation of the wrapper's interface.  An operation    *)
(* that throws leaves what it had not yet assigned unchanged.              *)
(***************************************************************************)
Init ==
    /\ layer = NoLayer
    /\ wrapper = NoWrapper
    /\ forwardLayer = NoLayer
    /\ backwardLayer = NoLayer
    /\ log = <<>>
    /\ res = [op |-> "none", status |-> OK]
    /\ lastTrainable = TRUE

NewBidirectional(configs) ==
    /\ wrapper.kind = "none"
    /\ \E config \in configs :
         LET r == BidirectionalCtor(config)
         IN  /\ log' = r.log
             /\ res' = IF r.status = OK
                       THEN [op |-> "new Bidirectional", status |-> r.status,
                             config |-> Without(config, "layer"),
                             supplied |-> config.layer]
                       ELSE [op |-> "new Bidirectional", status |-> r.status,
                             config |-> Without(config, "layer")]
             /\ IF r.status = OK
                THEN /\ layer' = r.layer
                     /\ wrapper' = r.wrapper
                     /\ forwardLayer' = r.forward
                     /\ backwardLayer' = r.backward
                     /\ lastTrainable' = LayerCtorTrainable(config)
                ELSE UNCHANGED <<layer, wrapper, forwardLayer, backwardLayer,
                                 lastTrainable>>

NewTimeDistributed(configs) ==
    /\ wrapper.kind = "none"
    /\ \E config \in configs :
         LET r == TimeDistributedCtor(config)
         IN  /\ wrapper' = r.wrapper
             /\ layer' = r.layer
             /\ log' = <<>>
             /\ res' = [op |-> "new TimeDistributed", status |-> OK,
                        config |-> Without(config, "layer")]
             /\ lastTrainable' = WrapperGetTrainable(r.layer)
             /\ UNCHANGED <<forwardLayer, backwardLayer>>

SetTrainableBidirectional ==
    /\ wrapper.kind = "Bidirectional"
    /\ \E value \in BOOLEAN :
         LET r == BidirectionalSetTrainable(wrapper, forwardLayer, backwardLayer, value)
         IN  /\ wrapper' = r.wrapper
             /\ forwardLayer' = r.forward
             /\ backwardLayer' = r.backward
             /\ lastTrainable' = value
             /\ log' = <<>>
             /\ res' = [op |-> "set trainable", status |-> OK, value |-> value]
             /\ UNCHANGED layer

SetTrainableTimeDistributed ==
    /\ wrapper.kind = "TimeDistributed"
    /\ \E value \in BOOLEAN :
         /\ layer' = WrapperSetTrainable(layer, value)
         /\ lastTrainable' = value
         /\ log' = <<>>
         /\ res' = [op |-> "set trainable", status |-> OK, value |-> value]
         /\ UNCHANGED <<wrapper, forwardLayer, backwardLayer>>

\* getConfig, then fromConfig on the result, then getConfig of the wrapper
\* that fromConfig built.
RoundTripBidirectional ==
    /\ wrapper.kind = "Bidirectional"
    /\ LET config == BidirectionalGetConfig(wrapper, layer)
           r == BidirectionalFromConfig(config)
       IN  /\ res' = [op |-> "roundtrip", status |-> r.status, before |-> config,
                      after |-> IF r.status = OK
                                THEN BidirectionalGetConfig(r.wrapper, r.layer)
                                ELSE EmptyDict]
           /\ log' = r.log
    /\ UNCHANGED <<layer, wrapper, forwardLayer, backwardLayer, lastTrainable>>

RoundTripTimeDistributed ==
    /\ wrapper.kind = "TimeDistributed"
    /\ LET config == TimeDistributedGetConfig(wrapper, layer)
           r == TimeDistributedFromConfig(config)
       IN  res' = [op |-> "roundtrip", status |-> OK, before |-> config,
                   after |-> TimeDistributedGetConfig(r.wrapper, r.layer)]
    /\ log' = <<>>
    /\ UNCHANGED <<layer, wrapper, forwardLayer, backwardLayer, lastTrainable>>

BuildTimeDistributed ==
    /\ wrapper.kind = "TimeDistributed"
    /\ \E inputShape \in Shapes :
         LET r == TimeDistributedBuild(wrapper, layer, inputShape)
         IN  /\ wrapper' = r.wrapper
             /\ layer' = r.layer
             /\ log' = r.log
             /\ res' = [op |-> "build", status |-> r.status, arg |-> inputShape,
                        before |-> [wrapper |-> wrapper, layer |-> layer]]
    /\ UNCHANGED <<forwardLayer, backwardLayer, lastTrainable>>

\* computeOutputShape does not check the rank; a shape needs a time axis
\* (rank >= 2) for inputShape[1] to be defined.
ComputeOutputShapeTimeDistributed ==
    /\ wrapper.kind = "TimeDistributed"
    /\ \E inputShape \in { s \in Shapes : Len(s) >= 2 } :
         res' = [op |-> "computeOutputShape", status |-> OK, arg |-> inputShape,
                 value |-> TimeDistributedComputeOutputShape(layer, inputShape)]
    /\ log' = <<>>
    /\ UNCHANGED <<layer, wrapper, forwardLayer, backwardLayer, lastTrainable>>

CallTimeDistributed ==
    /\ wrapper.kind = "TimeDistributed"
    /\ \E x \in TensorsOf(1..MaxSteps), kwargs \in StepKwargs :
         LET r == TimeDistributedCall(layer, x, kwargs)
         IN  /\ log' = r.log
             /\ res' = [op |-> "call", status |-> OK, arg |-> x, kwargs |-> kwargs,
                        value |-> r.value]
    /\ UNCHANGED <<layer, wrapper, forwardLayer, backwardLayer, lastTrainable>>

\* Layer.apply builds a layer once, when it is not built yet.
BuildBidirectional ==
    /\ wrapper.kind = "Bidirectional"
    /\ ~wrapper.built
    /\ \E inputShape \in { s \in Shapes : Len(s) = 3 } :
         LET r == BidirectionalBuild(wrapper, forwardLayer, backwardLayer, inputShape)
         IN  /\ wrapper' = r.wrapper
             /\ forwardLayer' = r.forward
             /\ backwardLayer' = r.backward
             /\ log' = r.log
             /\ res' = [op |-> "build", status |-> OK, arg |-> inputShape]
    /\ UNCHANGED <<layer, lastTrainable>>

SetWeightsBidirectional ==
    /\ wrapper.kind = "Bidirectional"
    /\ \E weights \in WeightLists :
         LET r == BidirectionalSetWeights(forwardLayer, backwardLayer, weights)
         IN  /\ forwardLayer' = r.forward
             /\ backwardLayer' = r.backward
             /\ res' = [op |-> "setWeights", status |-> r.status, arg |-> weights,
                        before |-> [forward |-> forwardLayer,
                                    backward |-> backwardLayer]]
    /\ log' = <<>>
    /\ UNCHANGED <<layer, wrapper, lastTrainable>>

GetWeightsBidirectional ==
    /\ wrapper.kind = "Bidirectional"
    /\ res' = [op |-> "getWeights", status |-> OK,
               value |-> BidirectionalGetWeights(forwardLayer, backwardLayer)]
    /\ log' = <<>>
    /\ UNCHANGED <<layer, wrapper, forwardLayer, backwardLayer, lastTrainable>>

ComputeOutputShapeBidirectional ==
    /\ wrapper.kind = "Bidirectional"
    /\ \E inputShape \in { s \in Shapes : Len(s) = 3 } :
         res' = [op |-> "computeOutputShape", status |-> OK, arg |-> inputShape,
                 value |-> BidirectionalComputeOutputShape(wrapper, forwardLayer,
                                                           inputShape)]
    /\ log' = <<>>
    /\ UNCHANGED <<layer, wrapper, forwardLayer, backwardLayer, lastTrainable>>

CallBidirectional ==
    /\ wrapper.kind = "Bidirectional"
    /\ \E x \in TensorsOf({2}), kwargs \in CallKwargs :
         LET r == BidirectionalCall(wrapper, forwardLayer, backwardLayer, x, kwargs)
         IN  /\ log' = r.log
             /\ res' = IF r.status = OK
                       THEN [op |-> "call", status |-> OK, arg |-> x,
                             kwargs |-> kwargs, value |-> r.value]
                       ELSE [op |-> "call", status |-> r.status, arg |-> x,
                             kwargs |-> kwargs]
    /\ UNCHANGED <<layer, wrapper, forwardLayer, backwardLayer, lastTrainable>>

\* apply, lines 378-458.  The input specification grows by the state specs
\* each time the base apply throws in the symbolic branch; MaxInputSpec caps
\* the specification an apply starts from.
ApplyBidirectional ==
    /\ wrapper.kind = "Bidirectional"
    /\ Len(wrapper.inputSpec) <= MaxInputSpec
    /\ \E a \in ApplyArgs :
         LET r == BidirectionalApply(wrapper, forwardLayer, backwardLayer, a[1], a[2])
         IN  /\ wrapper' = r.wrapper
             /\ forwardLayer' = r.forward
             /\ backwardLayer' = r.backward
             /\ log' = r.log
             /\ res' = [op |-> "apply", status |-> r.status, arg |-> a[1],
                        kwargs |-> a[2], kwargsAfter |-> r.kwargs,
                        before |-> [inputSpec |-> wrapper.inputSpec,
                                    forwardStateSpec |-> forwardLayer.stateSpec,
                                    backwardStateSpec |-> backwardLayer.stateSpec]]
    /\ UNCHANGED <<layer, lastTrainable>>

(***************************************************************************)
(* Specifications.  Spec: construction, trainable and configuration of     *)
(* both wrappers.  SpecTimeDistributed, SpecCall, SpecShape, SpecWeights:  *)
(* the operations of one wrapper on the inputs that exercise them.         *)
(***************************************************************************)
Next ==
    \/ NewBidirectional(BidirectionalConfigs)
    \/ NewTimeDistributed(TimeDistributedConfigs)
    \/ SetTrainableBidirectional
    \/ SetTrainableTimeDistributed
    \/ RoundTripBidirectional
    \/ RoundTripTimeDistributed

Spec == Init /\ [][Next]_vars

NextTimeDistributed ==
    \/ NewTimeDistributed(PlainTimeDistributedConfigs)
    \/ BuildTimeDistributed
    \/ ComputeOutputShapeTimeDistributed
    \/ CallTimeDistributed

SpecTimeDistributed == Init /\ [][NextTimeDistributed]_vars

NextCall ==
    \/ NewBidirectional(PlainBidirectionalConfigs)
    \/ CallBidirectional

SpecCall == Init /\ [][NextCall]_vars

NextShape ==
    \/ NewBidirectional(PlainBidirectionalConfigs)
    \/ ComputeOutputShapeBidirectional

SpecShape == Init /\ [][NextShape]_vars

NextWeights ==
    \/ NewBidirectional(WeightBidirectionalConfigs)
    \/ BuildBidirectional
    \/ SetWeightsBidirectional
    \/ GetWeightsBidirectional

SpecWeights == Init /\ [][NextWeights]_vars

NextApply ==
    \/ NewBidirectional(ApplyConfigs)
    \/ ApplyBidirectional

SpecApply == Init /\ [][NextApply]_vars

(***************************************************************************)
(* Properties.                                                             *)
(***************************************************************************)
NoCloneCreated == \A i \in 1..Len(log) : log[i].op # "deserialize"

\* C1: constructing a Bidirectional with a merge mode outside
\* {sum, mul, concat, ave, null/undefined} fails with a ValueError, and no
\* clone-creation (deserialize) step precedes the rejection.
C1_InvalidMergeModeRejectedBeforeClones ==
    ( /\ res.op = "new Bidirectional"
      /\ ConfigMergeMode(res.config) \notin VALID_BIDIRECTIONAL_MERGE_MODES \cup {Null} )
    => (res.status = ValueError /\ NoCloneCreated)

CallsTo(who) == { i \in 1..Len(log) : log[i].op = "call" /\ log[i].who = who }

\* C2: Bidirectional.call invokes forwardLayer.call exactly once and
\* backwardLayer.call exactly once, both on the input tensor; with an initial
\* state list of even length 2k (k >= 1) the forward call gets the first k
\* states and the backward call the last k.
C2_EachCloneCalledOnceWithItsHalf ==
    ( /\ wrapper.kind = "Bidirectional"
      /\ res.op = "call"
      /\ res.status = OK
      /\ Has(res.kwargs, "initialState") =>
            (Len(res.kwargs.initialState) % 2 = 0 /\ Len(res.kwargs.initialState) >= 2) )
    => /\ Cardinality(CallsTo("forwardLayer")) = 1
       /\ Cardinality(CallsTo("backwardLayer")) = 1
       /\ \A i \in 1..Len(log) : log[i].input = res.arg
       /\ Has(res.kwargs, "initialState") =>
            LET st == res.kwargs.initialState
                k == Len(st) \div 2
            IN  /\ \A i \in CallsTo("forwardLayer") :
                      log[i].kwargs.initialState = [j \in 1..k |-> st[j]]
                /\ \A i \in CallsTo("backwardLayer") :
                      log[i].kwargs.initialState = [j \in 1..k |-> st[k + j]]

\* C3: getConfig(fromConfig(cls, getConfig(w))) is structurally equal to
\* getConfig(w) for every TimeDistributed or Bidirectional wrapper w reached
\* by construction and trainable assignments.
C3_ConfigRoundTripStable ==
    res.op = "roundtrip" => (res.status = OK /\ res.after = res.before)

\* C10: the Bidirectional wrapper's trainable flag and both clones' trainable
\* flags all equal the most recently assigned value (the one given at
\* construction included).
C10_TrainableFlagsAgree ==
    wrapper.kind = "Bidirectional" =>
        /\ BidirectionalGetTrainable(wrapper) = lastTrainable
        /\ forwardLayer.trainable = lastTrainable
        /\ backwardLayer.trainable = lastTrainable

\* The forward clone's main output shape S and state shapes ST for the last
\* computeOutputShape argument.
ForwardMainShape == RnnComputeOutputShape(forwardLayer, res.arg)[1]

ForwardStateShapes ==
    LET fs == RnnComputeOutputShape(forwardLayer, res.arg)
    IN  [i \in 1..(Len(fs) - 1) |-> fs[i + 1]]

LastDoubled(shape, S) ==
    /\ Len(shape) = Len(S)
    /\ \A i \in 1..Len(S) : shape[i] = IF i = Len(S) THEN 2 * S[i] ELSE S[i]

\* C4: Bidirectional.computeOutputShape: concat gives one output shape, S
\* with only its last dimension doubled; sum, mul and ave give exactly S;
\* null gives two entries S; with returnState the forward state shapes ST and
\* then ST again follow the output entries, whatever the merge mode.
C4_BidirectionalOutputShape ==
    (wrapper.kind = "Bidirectional" /\ res.op = "computeOutputShape") =>
        LET S == ForwardMainShape
            ST == ForwardStateShapes
            out == res.value.shapes
            nOut == IF wrapper.mergeMode = Null THEN 2 ELSE 1
        IN  /\ wrapper.mergeMode = "concat" => LastDoubled(out[1], S)
            /\ wrapper.mergeMode \in {"sum", "mul", "ave"} => out[1] = S
            /\ wrapper.mergeMode = Null => (out[1] = S /\ out[2] = S)
            /\ IF wrapper.returnState
               THEN /\ Len(out) = nOut + 2 * Len(ST)
                    /\ \A i \in 1..Len(ST) :
                          out[nOut + i] = ST[i] /\ out[nOut + Len(ST) + i] = ST[i]
               ELSE Len(out) = nOut

C4_Witness ==
    /\ wrapper.kind = "Bidirectional"
    /\ res.op = "computeOutputShape"
    /\ wrapper.mergeMode = "concat"
    /\ wrapper.returnState
    /\ Len(ForwardStateShapes) = 2
    /\ Len(res.value.shapes) = 5

\* C5: TimeDistributed.call on an input [B, T, ...F] calls the inner layer
\* exactly T times, on the time slices t = 0..T-1 in ascending order, each
\* with leading dimension B and the same call options, and returns the T
\* per-step outputs stacked along a new axis 1.
C5_CallOncePerTimeSliceStacked ==
    (wrapper.kind = "TimeDistributed" /\ res.op = "call") =>
        LET x == res.arg
            T == x.shape[2]
        IN  /\ Len(log) = T
            /\ \A t \in 1..T :
                  /\ log[t].op = "call" /\ log[t].who = "layer"
                  /\ log[t].input.v = x.data[t]
                  /\ log[t].input.shape = <<x.shape[1], x.shape[3]>>
                  /\ log[t].kwargs = res.kwargs
            /\ res.value.shape =
                  LET O == InnerComputeOutputShape(layer, <<x.shape[1], x.shape[3]>>)
                  IN  <<O[1], T>> \o [i \in 1..(Len(O) - 1) |-> O[i + 1]]
            /\ Len(res.value.data) = T
            /\ \A t \in 1..T :
                  res.value.data[t] = [f |-> layer.className, x |-> x.data[t]]

C5_Witness ==
    /\ wrapper.kind = "TimeDistributed"
    /\ res.op = "call"
    /\ res.arg.shape[2] >= 2
    /\ Len(log) = res.arg.shape[2]
    /\ Has(res.kwargs, "training")

\* The shape with index 1 (the time axis) removed.
WithoutTimeAxis(s) == [i \in 1..(Len(s) - 1) |-> IF i = 1 THEN s[1] ELSE s[i + 1]]

\* C6: TimeDistributed.build throws a ValueError for every shape of rank < 3
\* and then changes neither the wrapper (built flag, input specification) nor
\* the inner layer; for rank >= 3 it succeeds, records the full shape as the
\* input specification and builds the inner layer, with the shape without
\* index 1, only if it was not built.
C6_BuildRankCheck ==
    (wrapper.kind = "TimeDistributed" /\ res.op = "build") =>
        IF Len(res.arg) < 3
        THEN /\ res.status = ValueError
             /\ wrapper = res.before.wrapper
             /\ layer = res.before.layer
             /\ log = <<>>
        ELSE /\ res.status = OK
             /\ wrapper.built
             /\ Len(wrapper.inputSpec) = 1
             /\ wrapper.inputSpec[1].shape = res.arg
             /\ layer.built
             /\ IF res.before.layer.built
                THEN log = <<>> /\ layer = res.before.layer
                ELSE /\ Len(log) = 1
                     /\ log[1].op = "build" /\ log[1].who = "layer"
                     /\ log[1].shape = WithoutTimeAxis(res.arg)

C6_Witness ==
    /\ wrapper.kind = "TimeDistributed"
    /\ res.op = "build"
    /\ res.status = ValueError
    /\ Len(res.arg) = 2
    /\ ~wrapper.built
    /\ ~layer.built

\* C7: for an input shape [B, T, ...F] of rank >= 3 and an inner layer whose
\* output shape for [B, ...F] is [O0, O1, ..., On], computeOutputShape of
\* TimeDistributed is [O0, T, O1, ..., On].
C7_TimeAxisReinserted ==
    ( /\ wrapper.kind = "TimeDistributed"
      /\ res.op = "computeOutputShape"
      /\ Len(res.arg) >= 3 ) =>
        LET O == InnerComputeOutputShape(layer, WithoutTimeAxis(res.arg))
        IN  /\ Len(res.value) = Len(O) + 1
            /\ res.value[1] = O[1]
            /\ res.value[2] = res.arg[2]
            /\ \A i \in 2..Len(O) : res.value[i + 1] = O[i]

C7_Witness ==
    /\ wrapper.kind = "TimeDistributed"
    /\ res.op = "computeOutputShape"
    /\ layer.className = "Reduce"
    /\ Len(res.arg) = 4
    /\ res.arg[1] # res.arg[2]
    /\ res.value = <<res.arg[1], res.arg[2]>>

\* C8: for a weight list W of even length whose halves match the two clones'
\* weight counts, setWeights(W) succeeds, gives the first half to the forward
\* clone and the rest to the backward clone, and getWeights() then returns W.
C8_SetThenGetWeights ==
    ( /\ wrapper.kind = "Bidirectional"
      /\ res.op = "setWeights"
      /\ Len(res.arg) % 2 = 0
      /\ 2 * Len(res.before.forward.weights) = Len(res.arg)
      /\ 2 * Len(res.before.backward.weights) = Len(res.arg) )
    => LET W == res.arg
           k == Len(W) \div 2
       IN  /\ res.status = OK
           /\ forwardLayer.weights = [i \in 1..k |-> W[i]]
           /\ backwardLayer.weights = [i \in 1..k |-> W[k + i]]
           /\ BidirectionalGetWeights(forwardLayer, backwardLayer) = W

C8_Witness ==
    /\ wrapper.kind = "Bidirectional"
    /\ res.op = "setWeights"
    /\ res.status = OK
    /\ Len(res.arg) = 4
    /\ res.arg[1] # res.arg[3]
    /\ BidirectionalGetWeights(forwardLayer, backwardLayer) = res.arg

\* C9: after construction from a layer whose goBackwards is g (true, false
\* or unset), the forward clone's flag is g and the backward clone's is
\* NOT g; the clones are named forward_<name> and backward_<name>, and the
\* supplied layer is unchanged.
C9_ClonesOppositeDirections ==
    (res.op = "new Bidirectional" /\ res.status = OK) =>
        LET g == GoBackwards(res.supplied)
        IN  /\ GoBackwards(forwardLayer) = g
            /\ GoBackwards(backwardLayer) = ~g
            /\ forwardLayer.name = "forward_" \o res.supplied.name
            /\ backwardLayer.name = "backward_" \o res.supplied.name
            /\ layer = res.supplied

C9_Witness ==
    /\ res.op = "new Bidirectional"
    /\ res.status = OK
    /\ GoBackwards(res.supplied)
    /\ ~GoBackwards(backwardLayer)
    /\ backwardLayer.name = "backward_rnn"

\* The initial-state list apply works on: the one in the options, or the
\* inputs after the first when the input is an array.
GivenStates ==
    IF res.arg.isArray THEN SliceFrom(res.arg.items, 1)
    ELSE IF Has(res.kwargs, "initialState") THEN res.kwargs.initialState
    ELSE <<>>

SymbolicStatesGiven ==
    /\ Len(GivenStates) > 0
    /\ \A i \in 1..Len(GivenStates) : GivenStates[i].symbolic

\* C11: after Bidirectional.apply with symbolic initial states, on a normal
\* return or on an error, the wrapper's input specification is the one it had
\* before the call, and a Bidirectional wrapper's input specification is
\* never longer than the one it was constructed with.
C11_InputSpecRestoredOnEveryExit ==
    /\ (res.op = "apply" /\ SymbolicStatesGiven)
          => wrapper.inputSpec = res.before.inputSpec
    /\ wrapper.kind = "Bidirectional" => Len(wrapper.inputSpec) <= Len(RnnInputSpec)

\* C12: apply with an initial-state list of odd length raises ValueError and
\* leaves the call options, both clones' state specifications and the
\* wrapper's input specification as they were; with even length 2k (k >= 1)
\* the forward clone's state specification is the specs of the first k
\* states and the backward clone's those of the last k; and every
\* initial-state list passed on to a clone's call comes from a list of even
\* length and is the clone's own half: the first k states in the one call
\* of the forward clone, the last k in the one call of the backward clone.
C12_EvenStatesSplitBetweenClones ==
    (res.op = "apply" /\ ~(res.arg.isArray /\ Has(res.kwargs, "initialState"))) =>
        LET st == GivenStates
            k == Len(st) \div 2
            specs == [i \in 1..Len(st) |-> InputSpecOfShape(st[i].shape)]
        IN  /\ Len(st) % 2 = 1 =>
                 /\ res.status = ValueError
                 /\ res.kwargsAfter = res.kwargs
                 /\ forwardLayer.stateSpec = res.before.forwardStateSpec
                 /\ backwardLayer.stateSpec = res.before.backwardStateSpec
                 /\ wrapper.inputSpec = res.before.inputSpec
                 /\ log = <<>>
            /\ (Len(st) % 2 = 0 /\ k >= 1) =>
                 /\ forwardLayer.stateSpec = [j \in 1..k |-> specs[j]]
                 /\ backwardLayer.stateSpec = [j \in 1..k |-> specs[k + j]]
            /\ \A i \in 1..Len(log) :
                 (log[i].op = "call" /\ Has(log[i].kwargs, "initialState")) =>
                    /\ Len(st) % 2 = 0
                    /\ k >= 1 =>
                          /\ log[i].who = "forwardLayer" =>
                                log[i].kwargs.initialState = [j \in 1..k |-> st[j]]
                          /\ log[i].who = "backwardLayer" =>
                                log[i].kwargs.initialState = [j \in 1..k |-> st[k + j]]
                          /\ Cardinality(CallsTo("forwardLayer")) = 1
                          /\ Cardinality(CallsTo("backwardLayer")) = 1

====
